---- MODULE Spec2Model ----
(***************************************************************************)
(* Model of the single-account password rotation program                   *)
(* (src/changePassword/single-change-password.js) together with the ledger *)
(* wrapper it calls (updatePasswordChange in src/api/account.js), of the   *)
(* sign-in acquisition (src/checkin/checkin-username.js), of the other     *)
(* ledger wrappers of src/api/account.js, and of the utilities             *)
(* getRandomDelay and AliasGenerator (src/utils).  Each component has its  *)
(* own specification: Spec, SpecSignIn, SpecApi, SpecDelay, SpecAlias.     *)
(*                                                                         *)
(* Strings that the code concatenates or inspects are modelled by what the *)
(* code does with them: usernames are sequences of characters, a failure   *)
(* message is the two substrings the code searches for plus the number of  *)
(* remaining characters, an error reason is a literal prefix plus a        *)
(* message.                                                                *)
(***************************************************************************)
EXTENDS Integers, Sequences, FiniteSets, TLC

VARIABLES
    argv,          \* process.argv[2] after JSON.parse (or not given)
    pc,            \* position of the program
    req,           \* destructured passwordChangeData inside the function
    path,          \* branch of executeSingleChangePassword that was taken
    initCalls,     \* number of changer.initialize() calls (browser launches)
    attempts,      \* arguments of every changer.changePassword() call, in order
    error,         \* message of the exception the catch block caught
    changeResult,  \* result of the first changePassword call
    retryResult,   \* result of the retry changePassword call
    retryUsername, \* new_username + randomSuffix
    pending,       \* updatePasswordChange calls the taken branch still has to make
    afterUpload,   \* where the branch continues after its updatePasswordChange call
    reports,       \* params of every updatePasswordChange call made
    uploadResult,  \* value returned by the last updatePasswordChange call
    sent,          \* requestData of every apiClient.post issued
    ledger,        \* the password-change record held by the backend
    result,        \* value returned by executeSingleChangePassword
    cleanups,      \* number of changer.cleanup() calls
    exitCode,      \* process.exit code
    \* AnyRouterSignIn (src/checkin/checkin-username.js)
    accounts,      \* the array handed to processAccounts
    acct,          \* loop index i of processAccounts (1-based), 0 before the call
    results,       \* the results array of processAccounts
    apc,           \* position inside processAccounts / loginAndGetSession
    browser,       \* state of the browser of the current acquisition
    context,       \* state of its browser context
    page,          \* state of its page
    loginResult,   \* value of the login page.evaluate
    apiUser,       \* loginResult.data.data?.id
    sessionCookie, \* cookies.find(c => c.name === 'session')
    signInResult,  \* value of the sign_in page.evaluate
    userInfoResult,\* value of the self-info page.evaluate
    ret,           \* value returned by the current loginAndGetSession call
    threw,         \* step whose exception the catch block caught, "" if none
    netLog,        \* network actions and delays of the current acquisition, in order
    closeLog,      \* close() calls of the current acquisition, in order
    leaked,        \* browsers of earlier acquisitions that are still open
    checkins,      \* per finished acquisition: did its sign_in call succeed
    runLog,        \* acquisitions and delays of processAccounts, in order
    \* ledger wrappers (src/api/account.js)
    balance,       \* the balance the backend holds for the account
    call,          \* the last wrapper call: function, arguments, returned result
    posts,         \* requests posted by the last wrapper call
    nCalls,        \* number of wrapper calls made
    \* utilities (src/utils/random-delay.js, src/utils/alias-generator.js)
    delayArgs,     \* min and max handed to getRandomDelay
    delayOut,      \* the last getRandomDelay call: function, random draw, returned delay
    indexFile,     \* data/alias-index.json: the persisted index, or no file
    startIndex,    \* what indexFile held before the generateNext calls began
    gen            \* per generateNext call: position, index read, pair used, result

chgVars == <<argv, pc, req, path, initCalls, attempts, error, changeResult, retryResult,
             retryUsername, pending, afterUpload, reports, uploadResult, sent,
             ledger, result, cleanups, exitCode>>

acqVars == <<accounts, acct, results, apc, browser, context, page, loginResult, apiUser,
             sessionCookie, signInResult, userInfoResult, ret, threw, netLog,
             closeLog, leaked, checkins, runLog>>

apiVars == <<balance, call, posts, nCalls>>

utilVars == <<delayArgs, delayOut, indexFile, startIndex, gen>>

vars == <<chgVars, acqVars, apiVars, utilVars>>

----------------------------------------------------------------------------
(* Bounds of the model *)

MaxErrorCount == 3      \* error_count carried in by a request ranges over 0..MaxErrorCount
ShortPad == 5           \* characters of a short message besides the searched substrings

(* Program constants *)

MaxReasonLen == 500     \* error_reason.length > 500 is rejected
SuffixLen == 2          \* for (let i = 0; i < 2; i++)
RetryErrorCount == 2    \* error_count === 2

----------------------------------------------------------------------------
(* JavaScript values *)

Absent == -1                     \* a number field that is undefined
NoName == << >>                  \* a username that is undefined / null / ''
NoString == ""                   \* a string field that is undefined / null / ''

TruthyName(s) == s # NoName       \* !!s for a username
TruthyString(s) == s # NoString   \* !!s for any other string

(* const chars = 'abcdefghijklmnopqrstuvwxyz0123456789' *)
chars == << "a","b","c","d","e","f","g","h","i","j","k","l","m",
            "n","o","p","q","r","s","t","u","v","w","x","y","z",
            "0","1","2","3","4","5","6","7","8","9" >>

(* Values of Math.floor(Math.random() * chars.length) the model draws:      *)
(* first and last letter, first and last digit (0-based, as in the code).   *)
RandomIndexes == {0, 25, 26, 35}

(* generateRandomSuffix: i-th draw is idx[i]; suffix += chars[idx] *)
RECURSIVE SuffixFrom(_, _)
SuffixFrom(idx, n) ==
    IF n = 0 THEN << >>
    ELSE Append(SuffixFrom(idx, n - 1), chars[idx[n] + 1])

(* generateRandomSuffix() for the draws idx[1], idx[2] of Math.random *)
generateRandomSuffix_OneChar(idx) == SuffixFrom(idx, SuffixLen - 1)
generateRandomSuffix(idx) == SuffixFrom(idx, SuffixLen)

----------------------------------------------------------------------------
(* Messages and error reasons *)

(* A message: does it contain 'Duplicate entry', does it contain            *)
(* "for key 'username'", and how many other characters it has.             *)
PadLens == {ShortPad, MaxReasonLen - 10, MaxReasonLen + 1}
Messages == [hasDupEntry : BOOLEAN, hasKeyUsername : BOOLEAN, pad : PadLens]
NoMsg == [hasDupEntry |-> FALSE, hasKeyUsername |-> FALSE, pad |-> 0]

(* message.length: 'Duplicate entry' has 15 characters, "for key 'username'" 18 *)
MsgLen(m) == (IF m.hasDupEntry THEN 15 ELSE 0)
             + (IF m.hasKeyUsername THEN 18 ELSE 0) + m.pad

(* Length of the template literal's fixed text in front of ${message} *)
PrefixLen(prefix) ==
    CASE prefix = "init"  -> 10    \* 8 CJK characters, ':' and ' '
      [] prefix = "retry" -> 8     \* 6 CJK characters, ':' and ' '
      [] prefix = "exc"   -> 6     \* 4 CJK characters, ':' and ' '
      [] OTHER            -> 0     \* the raw message

Reason(prefix, m) == [prefix |-> prefix, msg |-> m]
NoReason == Reason("none", NoMsg)
ReasonLen(r) == PrefixLen(r.prefix) + MsgLen(r.msg)

(* changeResult.message.includes('Duplicate entry') &&                      *)
(* changeResult.message.includes("for key 'username'")                     *)
isDuplicateUsernameError(m) == m.hasDupEntry /\ m.hasKeyUsername

(* if (isDuplicateUsernameError && error_count === 2) *)
ShouldRetry(isDup, error_count) == isDup /\ error_count = RetryErrorCount

----------------------------------------------------------------------------
(* The browser automation class AnyRouterChangePassword (change-password.js) *)

ServerName == << "s", "r", "v" >>     \* a username the site reports that nobody submitted
NoUserInfo == [present |-> FALSE, username |-> NoName]
UserInfo(u) == [present |-> TRUE, username |-> u]

(* changer.initialize(): resolves {success, message} or throws *)
InitResults ==
    { [kind |-> "ok", message |-> NoMsg] }
    \cup { [kind |-> k, message |-> m] :
             k \in {"fail", "throw"},
             m \in {x \in Messages : ~x.hasDupEntry /\ ~x.hasKeyUsername} }

(* changer.changePassword(username, password, newUsername, newPassword):    *)
(* resolves {success: true, userInfo}, {success: false, message}, or       *)
(* throws.  The verified snapshot carries the submitted username, another  *)
(* username, or none; it may be missing altogether.  A duplicate-username  *)
(* rejection only answers an update that submitted a username.             *)
ChangeResults(username, newUsername) ==
    { [kind |-> "ok", message |-> NoMsg, userInfo |-> ui] :
        ui \in { NoUserInfo, UserInfo(NoName), UserInfo(ServerName),
                 UserInfo(IF TruthyName(newUsername) THEN newUsername ELSE username) } }
    \cup { [kind |-> k, message |-> m, userInfo |-> NoUserInfo] :
             k \in {"fail", "throw"},
             m \in {x \in Messages :
                      isDuplicateUsernameError(x) => TruthyName(newUsername)} }
NoChangeResult == [kind |-> "none", message |-> NoMsg, userInfo |-> NoUserInfo]

----------------------------------------------------------------------------
(* updatePasswordChange (src/api/account.js) and the ledger behind it *)

UpdateFields == {"new_username", "status", "error_reason", "account_info"}

(* The params object of one updatePasswordChange call; `defined` holds the  *)
(* optional properties whose value is not undefined.                       *)
Params(record_id, defined, new_username, status, error_reason, account_info) ==
    [record_id |-> record_id, defined |-> defined, new_username |-> new_username,
     status |-> status, error_reason |-> error_reason, account_info |-> account_info]

(* Local validation: the error returned before any request, or "" *)
ValidationError(p) ==
    IF ~TruthyString(p.record_id) THEN "record_id"
    ELSE IF "status" \in p.defined /\ p.status \notin {0, 1, 2, 3} THEN "status"
    ELSE IF "error_reason" \in p.defined /\ ReasonLen(p.error_reason) > 0
            /\ ReasonLen(p.error_reason) > MaxReasonLen THEN "error_reason"
    ELSE ""

(* const requestData = { record_id }; plus every property !== undefined *)
RequestData(p) ==
    [record_id     |-> p.record_id,
     defined       |-> p.defined \cap UpdateFields,
     new_username  |-> IF "new_username" \in p.defined THEN p.new_username ELSE NoName,
     status        |-> IF "status" \in p.defined THEN p.status ELSE Absent,
     error_reason  |-> IF "error_reason" \in p.defined THEN p.error_reason ELSE NoReason,
     account_info  |-> IF "account_info" \in p.defined THEN p.account_info ELSE NoUserInfo]

(* The backend's rule for one update of the record: status 3 together with *)
(* an error reason increments error_count, status 2 records complete_date. *)
LedgerUpdate(l, r) ==
    [status        |-> IF "status" \in r.defined THEN r.status ELSE l.status,
     error_count   |-> IF "status" \in r.defined /\ r.status = 3
                          /\ "error_reason" \in r.defined
                       THEN l.error_count + 1 ELSE l.error_count,
     error_reason  |-> IF "error_reason" \in r.defined THEN r.error_reason ELSE l.error_reason,
     new_username  |-> IF "new_username" \in r.defined THEN r.new_username ELSE l.new_username,
     account_info  |-> IF "account_info" \in r.defined THEN r.account_info ELSE l.account_info,
     complete_date |-> l.complete_date \/ ("status" \in r.defined /\ r.status = 2)]

(* handleApiResponse(apiClient.post(...)): resolves {success: true, data}   *)
(* when the backend acknowledged, {success: false, error} otherwise.       *)
PostOutcomes == {TRUE, FALSE}
NoUploadResult == [called |-> FALSE, success |-> FALSE, error |-> ""]

----------------------------------------------------------------------------
(* executeSingleChangePassword: the updatePasswordChange call of each branch *)

(* { record_id, status: 3, error_reason: `<init prefix>${initResult.message}` } *)
ParamsInitFailure(record_id, m) ==
    Params(record_id, {"status", "error_reason"}, NoName, 3, Reason("init", m), NoUserInfo)

(* { record_id, status: 2, account_info: changeResult.userInfo } *)
ParamsCompleted_NoSnapshot(record_id, userInfo) ==
    Params(record_id, {"status"}, NoName, 2, NoReason, NoUserInfo)
ParamsCompleted(record_id, userInfo) ==
    Params(record_id,
           {"status"} \cup (IF userInfo.present THEN {"account_info"} ELSE {}),
           NoName, 2, NoReason, userInfo)

(* retryResult.userInfo?.username || retryUsername *)
UploadedUsername(userInfo, candidate) ==
    IF userInfo.present /\ TruthyName(userInfo.username)
    THEN userInfo.username ELSE candidate

(* { record_id, status: 2, new_username: ..., account_info: retryResult.userInfo } *)
ParamsRetryCompleted(record_id, userInfo, candidate) ==
    Params(record_id,
           {"status", "new_username"}
              \cup (IF userInfo.present THEN {"account_info"} ELSE {}),
           UploadedUsername(userInfo, candidate), 2, NoReason, userInfo)

(* { record_id, status: 3, error_reason: `<retry prefix>${retryResult.message}` } *)
ParamsRetryFailure(record_id, m) ==
    Params(record_id, {"status", "error_reason"}, NoName, 3, Reason("retry", m), NoUserInfo)

(* { record_id, status: 3, error_reason: changeResult.message } *)
ParamsFailure(record_id, m) ==
    Params(record_id, {"status", "error_reason"}, NoName, 3, Reason("raw", m), NoUserInfo)

(* catch: { record_id, status: 3, error_reason: `<exception prefix>${error.message}` } *)
ParamsException(record_id, m) ==
    Params(record_id, {"status", "error_reason"}, NoName, 3, Reason("exc", m), NoUserInfo)

(* Where the init-failure branch goes after its upload: it returns. *)
InitFailureContinuation_FallThrough == "change"
InitFailureContinuation == "finally"

(* finally { await changer.cleanup() } runs on every branch *)
CleanupRuns_OutsideFinally(p) == p # "exc"
CleanupRuns(p) == TRUE

Result_NeverSuccess(success, reason, userInfo) ==
    [success |-> FALSE, reason |-> reason, userInfo |-> userInfo]
Result(success, reason, userInfo) ==
    [success |-> success, reason |-> reason, userInfo |-> userInfo]
NoResult == Result(FALSE, NoReason, NoUserInfo)

----------------------------------------------------------------------------
(* The command line entry (isMainModule) *)

(* requiredFields = ['record_id', 'old_username', 'old_password'] *)
RequiredFieldsPresent(d) ==
    TruthyString(d.record_id) /\ TruthyName(d.old_username) /\ TruthyString(d.old_password)

(* !(!new_username && !new_password) *)
HasNewCredential_Unchecked(d) == TRUE
HasNewCredential(d) == TruthyName(d.new_username) \/ TruthyString(d.new_password)

Request(record_id, old_username, old_password, new_username, new_password, error_count) ==
    [record_id |-> record_id, old_username |-> old_username,
     old_password |-> old_password, new_username |-> new_username,
     new_password |-> new_password, error_count |-> error_count]
NoRequest == Request(NoString, NoName, NoString, NoName, NoString, Absent)

(* The JSON payloads the program is started with; given = FALSE: no argument *)
Argvs ==
    { [given |-> FALSE, data |-> NoRequest] }
    \cup { [given |-> TRUE, data |-> Request(r, ou, op, nu, np, ec)] :
             r  \in {NoString, "rec1"},
             ou \in {NoName, << "a", "l" >>},
             op \in {NoString, "oldpw"},
             nu \in {NoName, << "b", "o", "b" >>},
             np \in {NoString, "newpw"},
             ec \in {Absent} \cup 0..MaxErrorCount }

(* const { ..., error_count = 0 } = passwordChangeData *)
Destructure(d) ==
    [d EXCEPT !.error_count = IF d.error_count = Absent THEN 0 ELSE d.error_count]

(* The error_count the backend holds for the record when the run starts *)
ErrorCountIn == Destructure(argv.data).error_count

----------------------------------------------------------------------------
(* AnyRouterSignIn: values of the login / sign_in / self-info calls *)

MaxAccounts == 2        \* processAccounts is given at most MaxAccounts accounts

UserId == 7             \* the id the site reports for the account

(* The user object inside a response body: data.data *)
UserData(id, src) == [present |-> TRUE, id |-> id, src |-> src]
NoUserData == [present |-> FALSE, id |-> Absent, src |-> "none"]
LoginData == UserData(UserId, "login")      \* snapshot embedded in the login response
SelfData == UserData(UserId, "self")        \* snapshot returned by /api/user/self

(* What an in-page fetch wrapper returns:                                   *)
(*   success     response.ok (false too when fetch or response.json threw)  *)
(*   hasData     a body was parsed (no body when the catch branch returned) *)
(*   dataSuccess data.success of the body                                   *)
(*   data        data.data of the body                                      *)
FetchResult(success, hasData, dataSuccess, data) ==
    [success |-> success, hasData |-> hasData, dataSuccess |-> dataSuccess, data |-> data]
NoFetchResult == FetchResult(FALSE, FALSE, FALSE, NoUserData)

FetchThrew == FetchResult(FALSE, FALSE, FALSE, NoUserData)   \* { success: false, error }
HttpFailure == FetchResult(FALSE, TRUE, FALSE, NoUserData)   \* response.ok false
AppFailure == FetchResult(TRUE, TRUE, FALSE, NoUserData)     \* data.success false
FetchOk(data) == FetchResult(TRUE, TRUE, TRUE, data)

(* Results of the three in-page calls the model draws *)
LoginResults ==
    { FetchThrew, HttpFailure, AppFailure, FetchOk(NoUserData),
      FetchOk(UserData(Absent, "login")), FetchOk(LoginData) }
SignInResults == { FetchThrew, HttpFailure, AppFailure, FetchOk(NoUserData) }
UserInfoResults == { FetchThrew, HttpFailure, AppFailure, FetchOk(SelfData) }

(* context.cookies().find(c => c.name === 'session') *)
NoCookie == [found |-> FALSE, value |-> NoString]
SessionCookies == { NoCookie, [found |-> TRUE, value |-> "sess"] }

(* if (!loginResult.success) / if (!loginResult.data.success) / if (!apiUser) *)
LoginRejected_NoIdCheck(r) == ~r.success \/ ~r.dataSuccess
LoginRejected(r) == ~r.success \/ ~r.dataSuccess \/ ~(r.data.present /\ r.data.id # Absent)

(* if (signInResult.success && signInResult.data.success) *)
SignInSucceeded(r) == r.success /\ r.dataSuccess

(* After a failed sign_in the function only logs and goes on *)
AbortsAfterSignIn_OnFailure(r) == ~SignInSucceeded(r)
AbortsAfterSignIn(r) == FALSE

(* userData: the self-info data, or loginResult.data.data as the fallback *)
UserDataOf_NoFallback(selfResult, login) ==
    IF selfResult.success /\ selfResult.dataSuccess THEN selfResult.data ELSE NoUserData
UserDataOf(selfResult, login) ==
    IF selfResult.success /\ selfResult.dataSuccess THEN selfResult.data ELSE login.data

(* { session: sessionCookie.value, apiUser: String(apiUser), userInfo: userData } *)
Session(cookie, id, userData) ==
    [isNull |-> FALSE, session |-> cookie.value, apiUser |-> id, userInfo |-> userData]
Null == [isNull |-> TRUE, session |-> NoString, apiUser |-> Absent, userInfo |-> NoUserData]

(* results.push({ username, success: result !== null, data: result }) *)
ResultEntry(username, r) == [username |-> username, success |-> ~r.isNull, data |-> r]

(* The account arrays the model hands to processAccounts *)
AccountNames == {"u1", "u2"}
AccountLists == UNION { [1..n -> AccountNames] : n \in 0..MaxAccounts }

(* The close() call of the finally block that throws, if any *)
CloseFailures == {"none", "page", "context", "browser"}

(* The sign-in component before processAccounts is called *)
AcqStart(list, at) ==
    /\ accounts = list
    /\ acct = 0
    /\ results = << >>
    /\ apc = at
    /\ browser = "none"
    /\ context = "none"
    /\ page = "none"
    /\ loginResult = NoFetchResult
    /\ apiUser = Absent
    /\ sessionCookie = NoCookie
    /\ signInResult = NoFetchResult
    /\ userInfoResult = NoFetchResult
    /\ ret = Null
    /\ threw = ""
    /\ netLog = << >>
    /\ closeLog = << >>
    /\ leaked = 0
    /\ checkins = << >>
    /\ runLog = << >>

(* A JavaScript value passed where a number is expected: undefined, null, a  *)
(* non-integer number (n + 0.5), or the integer n                          *)
Value(kind, n) == [kind |-> kind, n |-> n]
Undefined == Value("undefined", 0)
JsNull == Value("null", 0)
IntValue(n) == Value("int", n)
IsInteger(v) == v.kind = "int"                         \* Number.isInteger(v)

(* The updateData object of updateAccountInfo: the keys it has and the value *)
(* of its balance key                                                        *)
UpdateData(fields, b) == [present |-> TRUE, fields |-> fields, balance |-> b]
NoUpdateData == [present |-> FALSE, fields |-> {}, balance |-> Absent]

NoParams == Params(NoString, {}, NoName, Absent, NoReason, NoUserInfo)

NoCall == [fn |-> "none", origin |-> "none", id |-> NoString, amount |-> Undefined,
           limit |-> Undefined, params |-> NoParams, updateData |-> NoUpdateData,
           success |-> FALSE, error |-> "", before |-> 0]

(* The ledger wrappers before any call *)
ApiStart(b) ==
    /\ balance = b
    /\ call = NoCall
    /\ posts = << >>
    /\ nCalls = 0

(* The utilities: getRandomDelay arguments and result, the alias index *)
DelayArgs(min, max) == [min |-> min, max |-> max]
NoDelayOut == [fn |-> "none", draw |-> 0, value |-> 0]

(* const SURNAMES / GIVEN_NAMES: the lists are modelled by their lengths, *)
(* scaled down from the 100 entries each has in the code                  *)
SurnameCount == 3
GivenNameCount == 3

Index(surnameIndex, givenNameIndex) ==
    [surnameIndex |-> surnameIndex, givenNameIndex |-> givenNameIndex]
IndexFile(index) == [exists |-> TRUE, index |-> index]
NoIndexFile == [exists |-> FALSE, index |-> Index(0, 0)]

Callers == {"g1", "g2"}       \* the two concurrent generateNext calls
GenAt(at) == [pc |-> at, index |-> Index(0, 0), used |-> Index(0, 0),
              newIndex |-> Index(0, 0)]

UtilStart(args, file, at) ==
    /\ delayArgs = args
    /\ delayOut = NoDelayOut
    /\ indexFile = file
    /\ startIndex = file
    /\ gen = [c \in Callers |-> GenAt(at)]

UtilOff == UtilStart(DelayArgs(0, 0), NoIndexFile, "off")

----------------------------------------------------------------------------
Init ==
    /\ argv \in Argvs
    /\ pc = "cli"
    /\ req = NoRequest
    /\ path = "none"
    /\ initCalls = 0
    /\ attempts = << >>
    /\ error = NoMsg
    /\ changeResult = NoChangeResult
    /\ retryResult = NoChangeResult
    /\ retryUsername = NoName
    /\ pending = << >>
    /\ afterUpload = "none"
    /\ reports = << >>
    /\ uploadResult = NoUploadResult
    /\ sent = << >>
    /\ \E st \in {0, 1} :
         ledger = [status |-> st, error_count |-> ErrorCountIn,
                   error_reason |-> NoReason, new_username |-> argv.data.new_username,
                   account_info |-> NoUserInfo, complete_date |-> FALSE]
    /\ result = NoResult
    /\ cleanups = 0
    /\ exitCode = Absent
    /\ AcqStart(<< >>, "off")
    /\ ApiStart(0)
    /\ UtilOff

(* if (isMainModule): read argv, validate, call executeSingleChangePassword *)
CliMain ==
    /\ pc = "cli"
    /\ IF ~argv.given \/ ~RequiredFieldsPresent(argv.data) \/ ~HasNewCredential(argv.data)
       THEN /\ pc' = "exited"
            /\ exitCode' = 1
            /\ UNCHANGED req
       ELSE /\ pc' = "init"
            /\ req' = Destructure(argv.data)
            /\ UNCHANGED exitCode
    /\ UNCHANGED <<argv, error, path, initCalls, attempts, changeResult, retryResult,
                   retryUsername, pending, afterUpload, reports, uploadResult,
                   sent, ledger, result, cleanups>>
    /\ UNCHANGED <<acqVars, apiVars, utilVars>>

(* A branch hands `params` to updatePasswordChange and then continues at `next` *)
Report(branch, params, next, res) ==
    /\ path' = branch
    /\ UNCHANGED error
    /\ pending' = << params >>
    /\ afterUpload' = next
    /\ result' = res
    /\ pc' = "upload"

(* catch (error): report the exception and return *)
Catch(m) ==
    /\ error' = m
    /\ path' = "exc"
    /\ pending' = << ParamsException(req.record_id, m) >>
    /\ afterUpload' = "finally"
    /\ result' = Result(FALSE, Reason("exc", m), NoUserInfo)
    /\ pc' = "upload"

(* Step 1: changer.initialize() *)
Initialize ==
    /\ pc = "init"
    /\ initCalls' = initCalls + 1
    /\ \E r \in InitResults :
         CASE r.kind = "ok" ->
                /\ pc' = "change"
                /\ UNCHANGED <<path, error, pending, afterUpload, result>>
           [] r.kind = "fail" ->
                Report("initfail", ParamsInitFailure(req.record_id, r.message),
                       InitFailureContinuation,
                       Result(FALSE, Reason("init", r.message), NoUserInfo))
           [] OTHER -> Catch(r.message)
    /\ UNCHANGED <<argv, req, attempts, changeResult, retryResult, retryUsername,
                   reports, uploadResult, sent, ledger, cleanups, exitCode>>
    /\ UNCHANGED <<acqVars, apiVars, utilVars>>

Attempt(username, password, newUsername, newPassword) ==
    [username |-> username, password |-> password,
     newUsername |-> newUsername, newPassword |-> newPassword]

(* Steps 2 and 3: the first changer.changePassword() and its result *)
ChangePassword ==
    /\ pc = "change"
    /\ attempts' = Append(attempts, Attempt(req.old_username, req.old_password,
                                            req.new_username, req.new_password))
    /\ \E r \in ChangeResults(req.old_username, req.new_username) :
         CASE r.kind = "ok" ->
                /\ changeResult' = r
                /\ Report("ok", ParamsCompleted(req.record_id, r.userInfo), "finally",
                          Result(TRUE, NoReason, r.userInfo))
           [] r.kind = "fail" ->
                /\ changeResult' = r
                /\ IF ShouldRetry(isDuplicateUsernameError(r.message), req.error_count)
                   THEN /\ pc' = "retry"
                        /\ UNCHANGED <<path, error, pending, afterUpload, result>>
                   ELSE Report("fail", ParamsFailure(req.record_id, r.message), "finally",
                               Result(FALSE, Reason("raw", r.message), NoUserInfo))
           [] OTHER ->
                /\ UNCHANGED changeResult
                /\ Catch(r.message)
    /\ UNCHANGED <<argv, req, initCalls, retryResult, retryUsername, reports,
                   uploadResult, sent, ledger, cleanups, exitCode>>
    /\ UNCHANGED <<acqVars, apiVars, utilVars>>

(* The conflict retry: new_username + generateRandomSuffix(), one more attempt *)
RetryChangePassword ==
    /\ pc = "retry"
    /\ \E idx \in [1..SuffixLen -> RandomIndexes] :
         LET candidate == req.new_username \o generateRandomSuffix(idx) IN
         /\ retryUsername' = candidate
         /\ attempts' = Append(attempts, Attempt(req.old_username, req.old_password,
                                                 candidate, req.new_password))
         /\ \E r \in ChangeResults(req.old_username, candidate) :
              CASE r.kind = "ok" ->
                     /\ retryResult' = r
                     /\ Report("retryok",
                               ParamsRetryCompleted(req.record_id, r.userInfo, candidate),
                               "finally", Result(TRUE, NoReason, r.userInfo))
                [] r.kind = "fail" ->
                     /\ retryResult' = r
                     /\ Report("retryfail", ParamsRetryFailure(req.record_id, r.message),
                               "finally",
                               Result(FALSE, Reason("retry", r.message), NoUserInfo))
                [] OTHER ->
                     /\ UNCHANGED retryResult
                     /\ Catch(r.message)
    /\ UNCHANGED <<argv, req, initCalls, changeResult, reports, uploadResult,
                   sent, ledger, cleanups, exitCode>>
    /\ UNCHANGED <<acqVars, apiVars, utilVars>>

(* await updatePasswordChange(params): validate, post, and the backend's update *)
UpdatePasswordChange ==
    /\ pc = "upload"
    /\ pending # << >>
    /\ LET p == Head(pending) IN
         /\ reports' = Append(reports, p)
         /\ IF ValidationError(p) # ""
            THEN /\ uploadResult' = [called |-> TRUE, success |-> FALSE,
                                     error |-> ValidationError(p)]
                 /\ UNCHANGED <<sent, ledger>>
            ELSE \E acknowledged \in PostOutcomes :
                   /\ sent' = Append(sent, RequestData(p))
                   /\ uploadResult' = [called |-> TRUE, success |-> acknowledged,
                                       error |-> IF acknowledged THEN "" ELSE "post"]
                   /\ ledger' = IF acknowledged
                                THEN LedgerUpdate(ledger, RequestData(p)) ELSE ledger
    /\ pending' = Tail(pending)
    /\ pc' = IF Tail(pending) = << >> THEN afterUpload ELSE "upload"
    /\ UNCHANGED <<argv, error, req, path, initCalls, attempts, changeResult, retryResult,
                   retryUsername, afterUpload, result, cleanups, exitCode>>
    /\ UNCHANGED <<acqVars, apiVars, utilVars>>

(* finally: changer.cleanup(), then the function returns `result` *)
Cleanup ==
    /\ pc = "finally"
    /\ cleanups' = IF CleanupRuns(path) THEN cleanups + 1 ELSE cleanups
    /\ pc' = "returned"
    /\ UNCHANGED <<argv, error, req, path, initCalls, attempts, changeResult, retryResult,
                   retryUsername, pending, afterUpload, reports, uploadResult,
                   sent, ledger, result, exitCode>>
    /\ UNCHANGED <<acqVars, apiVars, utilVars>>

(* process.exit(result.success ? 0 : 1) *)
CliExit ==
    /\ pc = "returned"
    /\ exitCode' = IF result.success THEN 0 ELSE 1
    /\ pc' = "exited"
    /\ UNCHANGED <<argv, error, req, path, initCalls, attempts, changeResult, retryResult,
                   retryUsername, pending, afterUpload, reports, uploadResult,
                   sent, ledger, result, cleanups>>
    /\ UNCHANGED <<acqVars, apiVars, utilVars>>

Next ==
    \/ CliMain
    \/ Initialize
    \/ ChangePassword
    \/ RetryChangePassword
    \/ UpdatePasswordChange
    \/ Cleanup
    \/ CliExit

Spec == Init /\ [][Next]_vars

TypeOK ==
    /\ argv \in Argvs
    /\ pc \in {"cli", "init", "change", "retry", "upload", "finally", "returned", "exited"}
    /\ path \in {"none", "initfail", "ok", "fail", "retryok", "retryfail", "exc"}
    /\ initCalls \in 0..1
    /\ Len(attempts) <= 2
    /\ cleanups \in 0..1
    /\ exitCode \in {Absent, 0, 1}

----------------------------------------------------------------------------
(* Vocabulary of the properties *)

(* executeSingleChangePassword has returned *)
Returned == pc \in {"returned", "exited"} /\ path # "none"

(* The function is past its try/catch body: every report of the run is made *)
Settled == pc \in {"finally", "returned", "exited"} /\ path # "none"

(* The characters a-z and 0-9 *)
LowerAlnum ==
    {"a","b","c","d","e","f","g","h","i","j","k","l","m","n","o","p","q","r",
     "s","t","u","v","w","x","y","z","0","1","2","3","4","5","6","7","8","9"}

(* t is s followed by exactly two characters of a-z0-9 *)
IsSuffixed(s, t) ==
    /\ Len(t) = Len(s) + 2
    /\ SubSeq(t, 1, Len(s)) = s
    /\ \A i \in (Len(s) + 1)..Len(t) : t[i] \in LowerAlnum

FirstFailedWithConflict ==
    /\ changeResult.kind = "fail"
    /\ isDuplicateUsernameError(changeResult.message)
    /\ req.error_count = 2

(* The snapshot returned by the attempt that succeeded *)
SuccessSnapshot == IF path = "retryok" THEN retryResult.userInfo ELSE changeResult.userInfo

----------------------------------------------------------------------------
(* C1: when browser initialization fails, the request is reported with     *)
(* status error and a descriptive reason, no rotation attempt is made, and *)
(* the record's error count on the ledger stays at its input value.        *)
C1_InitFailureLeavesErrorCount ==
    (path = "initfail" /\ Settled) =>
        /\ Len(reports) = 1
        /\ reports[1].status = 3
        /\ reports[1].error_reason = Reason("init", result.reason.msg)
        /\ attempts = << >>
        /\ ledger.error_count = ErrorCountIn

(* C2: a first failure with a duplicate-username message and error_count   *)
(* exactly 2 is followed by exactly one more attempt, whose username is    *)
(* the desired new username plus two characters of a-z0-9 and whose other  *)
(* arguments are unchanged; if the retry fails too the run ends in status  *)
(* error; no run makes more than two attempts.                             *)
C2_SingleConflictRetry ==
    /\ Len(attempts) <= 2
    /\ (FirstFailedWithConflict /\ pc # "retry") =>
          /\ Len(attempts) = 2
          /\ IsSuffixed(req.new_username, attempts[2].newUsername)
          /\ attempts[2].username = attempts[1].username
          /\ attempts[2].password = attempts[1].password
          /\ attempts[2].newPassword = attempts[1].newPassword
          /\ attempts[1].newUsername = req.new_username
    /\ (retryResult.kind = "fail" /\ Settled) =>
          /\ Len(attempts) = 2
          /\ reports[Len(reports)].status = 3
          /\ ~result.success

C2_Witness ==
    /\ pc = "returned"
    /\ path = "retryfail"
    /\ Len(attempts) = 2
    /\ attempts[2].newUsername = << "b", "o", "b", "z", "0" >>

(* C3: after a successful conflict retry the new_username uploaded with     *)
(* status completed is the username of the snapshot the retry returned     *)
(* (none when the snapshot has none), never the generated candidate.       *)
C3_UploadedUsernameIsSnapshot ==
    (path = "retryok" /\ sent # << >>) =>
        /\ sent[1].status = 2
        /\ sent[1].new_username = retryResult.userInfo.username
        /\ (retryResult.userInfo.username # retryUsername
               => sent[1].new_username # retryUsername)

(* C4: an exception at any stage ends the run in status error with a       *)
(* reason containing the exception message and leaves the record's error  *)
(* count on the ledger unchanged.                                          *)
C4_ExceptionLeavesErrorCount ==
    (path = "exc" /\ Settled) =>
        /\ reports[Len(reports)].status = 3
        /\ reports[Len(reports)].error_reason.msg = error
        /\ ~result.success
        /\ ledger.error_count = ErrorCountIn

(* C5: whenever the function has returned, a status and reason for the run *)
(* has been sent to the ledger, whatever the length of the failure message.*)
C5_OutcomeAlwaysSent ==
    Returned =>
        /\ sent # << >>
        /\ sent[Len(sent)].status \in {2, 3}
        /\ (sent[Len(sent)].status = 3 => "error_reason" \in sent[Len(sent)].defined)

C7_CleanupExactlyOnce ==
    /\ cleanups <= 1
    /\ Returned => cleanups = 1
    /\ cleanups = 1 => (Returned /\ Len(reports) >= 1 /\ pending = << >>)

C7_Witness ==
    /\ pc = "returned"
    /\ path = "exc"
    /\ cleanups = 1
    /\ Len(attempts) = 2

(* C8: a first failure that is not a duplicate-username conflict at        *)
(* error_count 2 is not retried, and the ledger receives status error with *)
(* the attempt's raw message as the reason.                                *)
C8_FailureSentWithRawMessage ==
    (changeResult.kind = "fail" /\ ~FirstFailedWithConflict /\ Returned) =>
        /\ Len(attempts) = 1
        /\ Len(sent) = 1
        /\ sent[1].status = 3
        /\ "error_reason" \in sent[1].defined
        /\ sent[1].error_reason.msg = changeResult.message
        /\ ReasonLen(sent[1].error_reason) = MsgLen(changeResult.message)

(* C9: after a successful attempt exactly one update is sent, it has status *)
(* completed, its account_info is the snapshot the attempt returned, and   *)
(* it has no error_reason.                                                 *)
C9_CompletedCarriesSnapshot ==
    (path \in {"ok", "retryok"} /\ Returned) =>
        /\ Len(sent) = 1
        /\ sent[1].status = 2
        /\ sent[1].account_info = SuccessSnapshot
        /\ ("account_info" \in sent[1].defined) = SuccessSnapshot.present
        /\ "error_reason" \notin sent[1].defined

C9_Witness ==
    /\ pc = "returned"
    /\ path = "ok"
    /\ Len(sent) = 1
    /\ sent[1].account_info = UserInfo(ServerName)

----------------------------------------------------------------------------
(* The password-rotation program when it is not run *)
ChgOff ==
    /\ argv = [given |-> FALSE, data |-> NoRequest]
    /\ pc = "off"
    /\ req = NoRequest
    /\ path = "none"
    /\ initCalls = 0
    /\ attempts = << >>
    /\ error = NoMsg
    /\ changeResult = NoChangeResult
    /\ retryResult = NoChangeResult
    /\ retryUsername = NoName
    /\ pending = << >>
    /\ afterUpload = "none"
    /\ reports = << >>
    /\ uploadResult = NoUploadResult
    /\ sent = << >>
    /\ ledger = [status |-> 0, error_count |-> 0, error_reason |-> NoReason,
                 new_username |-> NoName, account_info |-> NoUserInfo,
                 complete_date |-> FALSE]
    /\ result = NoResult
    /\ cleanups = 0
    /\ exitCode = Absent

----------------------------------------------------------------------------
(* AnyRouterSignIn.processAccounts and loginAndGetSession *)

Event(name) == [ev |-> name, min |-> 0, max |-> 0]
Delay(min, max) == [ev |-> "delay", min |-> min, max |-> max]   \* randomDelay(min, max)

(* catch (error) { return null } *)
Caught(step) ==
    /\ threw' = step
    /\ ret' = Null
    /\ apc' = "finally"

(* for (let i = 0; i < accounts.length; i++): the call for the next account *)
StartAccount ==
    /\ apc = "loop"
    /\ acct < Len(accounts)
    /\ acct' = acct + 1
    /\ apc' = "launch"
    /\ runLog' = Append(runLog, Event("acquire"))
    /\ loginResult' = NoFetchResult
    /\ apiUser' = Absent
    /\ sessionCookie' = NoCookie
    /\ signInResult' = NoFetchResult
    /\ userInfoResult' = NoFetchResult
    /\ ret' = Null
    /\ threw' = ""
    /\ netLog' = << >>
    /\ closeLog' = << >>
    /\ UNCHANGED <<accounts, results, browser, context, page, leaked, checkins>>
    /\ UNCHANGED <<chgVars, apiVars, utilVars>>

(* browser = await chromium.launch(...) *)
Launch ==
    /\ apc = "launch"
    /\ \/ /\ browser' = "open"
          /\ apc' = "context"
          /\ UNCHANGED <<ret, threw>>
       \/ /\ Caught("launch")
          /\ UNCHANGED browser
    /\ UNCHANGED <<accounts, acct, results, context, page, loginResult, apiUser,
                   sessionCookie, signInResult, userInfoResult, netLog, closeLog,
                   leaked, checkins, runLog>>
    /\ UNCHANGED <<chgVars, apiVars, utilVars>>

(* context = await browser.newContext(...); await applyStealthToContext(context) *)
NewContext ==
    /\ apc = "context"
    /\ \/ /\ context' = "open"
          /\ apc' = "page"
          /\ UNCHANGED <<ret, threw>>
       \/ /\ Caught("context")
          /\ context' \in {"none", "open"}
    /\ UNCHANGED <<accounts, acct, results, browser, page, loginResult, apiUser,
                   sessionCookie, signInResult, userInfoResult, netLog, closeLog,
                   leaked, checkins, runLog>>
    /\ UNCHANGED <<chgVars, apiVars, utilVars>>

(* page = await context.newPage() *)
NewPage ==
    /\ apc = "page"
    /\ \/ /\ page' = "open"
          /\ apc' = "goto"
          /\ UNCHANGED <<ret, threw>>
       \/ /\ Caught("page")
          /\ UNCHANGED page
    /\ UNCHANGED <<accounts, acct, results, browser, context, loginResult, apiUser,
                   sessionCookie, signInResult, userInfoResult, netLog, closeLog,
                   leaked, checkins, runLog>>
    /\ UNCHANGED <<chgVars, apiVars, utilVars>>

(* await page.goto(baseUrl, ...); await this.randomDelay(2000, 3000) *)
Goto ==
    /\ apc = "goto"
    /\ \/ /\ netLog' = netLog \o << Event("goto"), Delay(2000, 3000) >>
          /\ apc' = "inspect"
          /\ UNCHANGED <<ret, threw>>
       \/ /\ netLog' = Append(netLog, Event("goto"))
          /\ Caught("goto")
    /\ UNCHANGED <<accounts, acct, results, browser, context, page, loginResult,
                   apiUser, sessionCookie, signInResult, userInfoResult, closeLog,
                   leaked, checkins, runLog>>
    /\ UNCHANGED <<chgVars, apiVars, utilVars>>

(* beforeLoginState = await page.evaluate(...); cookies2 = await context.cookies() *)
InspectState ==
    /\ apc = "inspect"
    /\ \/ /\ apc' = "login"
          /\ UNCHANGED <<ret, threw>>
       \/ Caught("inspect")
    /\ UNCHANGED <<accounts, acct, results, browser, context, page, loginResult,
                   apiUser, sessionCookie, signInResult, userInfoResult, netLog,
                   closeLog, leaked, checkins, runLog>>
    /\ UNCHANGED <<chgVars, apiVars, utilVars>>

(* loginResult = await page.evaluate(login fetch) and the three checks on it *)
Login ==
    /\ apc = "login"
    /\ netLog' = Append(netLog, Event("login"))
    /\ \/ \E r \in LoginResults :
            /\ loginResult' = r
            /\ threw' = threw
            /\ IF LoginRejected(r)
               THEN /\ ret' = Null
                    /\ apc' = "finally"
                    /\ UNCHANGED apiUser
               ELSE /\ apiUser' = r.data.id
                    /\ apc' = "cookies"
                    /\ UNCHANGED ret
       \/ /\ Caught("login")
          /\ UNCHANGED <<loginResult, apiUser>>
    /\ UNCHANGED <<accounts, acct, results, browser, context, page, sessionCookie,
                   signInResult, userInfoResult, closeLog, leaked, checkins, runLog>>
    /\ UNCHANGED <<chgVars, apiVars, utilVars>>

(* cookies = await context.cookies(); sessionCookie = cookies.find(...) *)
ReadCookies ==
    /\ apc = "cookies"
    /\ \/ \E c \in SessionCookies :
            /\ sessionCookie' = c
            /\ threw' = threw
            /\ IF ~c.found
               THEN ret' = Null /\ apc' = "finally"
               ELSE apc' = "signin" /\ UNCHANGED ret
       \/ /\ Caught("cookies")
          /\ UNCHANGED sessionCookie
    /\ UNCHANGED <<accounts, acct, results, browser, context, page, loginResult,
                   apiUser, signInResult, userInfoResult, netLog, closeLog, leaked,
                   checkins, runLog>>
    /\ UNCHANGED <<chgVars, apiVars, utilVars>>

(* signInResult = await page.evaluate(sign_in fetch); log its outcome *)
SignIn ==
    /\ apc = "signin"
    /\ netLog' = Append(netLog, Event("checkin"))
    /\ \/ \E r \in SignInResults :
            /\ signInResult' = r
            /\ threw' = threw
            /\ IF AbortsAfterSignIn(r)
               THEN ret' = Null /\ apc' = "finally"
               ELSE apc' = "self" /\ UNCHANGED ret
       \/ /\ Caught("signin")
          /\ UNCHANGED signInResult
    /\ UNCHANGED <<accounts, acct, results, browser, context, page, loginResult,
                   apiUser, sessionCookie, userInfoResult, closeLog, leaked,
                   checkins, runLog>>
    /\ UNCHANGED <<chgVars, apiVars, utilVars>>

(* userInfoResult = await page.evaluate(self fetch); build the returned object *)
GetUserInfo ==
    /\ apc = "self"
    /\ netLog' = Append(netLog, Event("self"))
    /\ \/ \E r \in UserInfoResults :
            /\ userInfoResult' = r
            /\ threw' = threw
            /\ ret' = Session(sessionCookie, apiUser, UserDataOf(r, loginResult))
            /\ apc' = "finally"
       \/ /\ Caught("self")
          /\ UNCHANGED userInfoResult
    /\ UNCHANGED <<accounts, acct, results, browser, context, page, loginResult,
                   apiUser, sessionCookie, signInResult, closeLog, leaked, checkins,
                   runLog>>
    /\ UNCHANGED <<chgVars, apiVars, utilVars>>

(* finally { try { page.close(); context.close(); browser.close() } catch {} }  *)
(* `fails` is the close() call that throws; the calls after it are skipped.    *)
(* A closed context closes its page, a closed browser its contexts and pages.  *)
CloseAll(p, c, b, fails) ==
    LET pageCalled == p = "open"
        pageThrew  == pageCalled /\ fails = "page"
        ctxCalled  == ~pageThrew /\ c = "open"
        ctxThrew   == ctxCalled /\ fails = "context"
        brCalled   == ~pageThrew /\ ~ctxThrew /\ b = "open"
        brThrew    == brCalled /\ fails = "browser"
        brClosed   == brCalled /\ ~brThrew
        ctxClosed  == (ctxCalled /\ ~ctxThrew) \/ brClosed
        pageClosed == (pageCalled /\ ~pageThrew) \/ ctxClosed
    IN  [page    |-> IF p = "open" /\ pageClosed THEN "closed" ELSE p,
         context |-> IF c = "open" /\ ctxClosed THEN "closed" ELSE c,
         browser |-> IF b = "open" /\ brClosed THEN "closed" ELSE b,
         calls   |-> (IF pageCalled THEN << "page" >> ELSE << >>)
                     \o (IF ctxCalled THEN << "context" >> ELSE << >>)
                     \o (IF brCalled THEN << "browser" >> ELSE << >>)]

Finally ==
    /\ apc = "finally"
    /\ \E fails \in CloseFailures :
         /\ fails = "none"
              \/ (fails = "page" /\ page = "open")
              \/ (fails = "context" /\ context = "open")
              \/ (fails = "browser" /\ browser = "open")
         /\ LET after == CloseAll(page, context, browser, fails) IN
              /\ page' = after.page
              /\ context' = after.context
              /\ browser' = after.browser
              /\ closeLog' = after.calls
    /\ apc' = "push"
    /\ UNCHANGED <<accounts, acct, results, loginResult, apiUser, sessionCookie,
                   signInResult, userInfoResult, ret, threw, netLog, leaked,
                   checkins, runLog>>
    /\ UNCHANGED <<chgVars, apiVars, utilVars>>

(* if (i < accounts.length - 1), for the 1-based position k of account i *)
DelayBeforeNext_AfterEvery(k, n) == TRUE
DelayBeforeNext(k, n) == k < n

(* results.push({...}); if (i < accounts.length - 1) await randomDelay(5000, 7000) *)
PushResult ==
    /\ apc = "push"
    /\ results' = Append(results, ResultEntry(accounts[acct], ret))
    /\ checkins' = Append(checkins, SignInSucceeded(signInResult))
    /\ leaked' = leaked + (IF browser = "open" THEN 1 ELSE 0)
    /\ browser' = "none"
    /\ context' = "none"
    /\ page' = "none"
    /\ runLog' = IF DelayBeforeNext(acct, Len(accounts))
                 THEN runLog \o << Event("acquired"), Delay(5000, 7000) >>
                 ELSE Append(runLog, Event("acquired"))
    /\ apc' = "loop"
    /\ UNCHANGED <<accounts, acct, loginResult, apiUser, sessionCookie, signInResult,
                   userInfoResult, ret, threw, netLog, closeLog>>
    /\ UNCHANGED <<chgVars, apiVars, utilVars>>

(* return results *)
ReturnResults ==
    /\ apc = "loop"
    /\ acct = Len(accounts)
    /\ apc' = "done"
    /\ UNCHANGED <<accounts, acct, results, browser, context, page, loginResult,
                   apiUser, sessionCookie, signInResult, userInfoResult, ret, threw,
                   netLog, closeLog, leaked, checkins, runLog>>
    /\ UNCHANGED <<chgVars, apiVars, utilVars>>

InitSignIn ==
    /\ ChgOff
    /\ ApiStart(0)
    /\ UtilOff
    /\ \E list \in AccountLists : AcqStart(list, "loop")

NextSignIn ==
    \/ StartAccount
    \/ Launch
    \/ NewContext
    \/ NewPage
    \/ Goto
    \/ InspectState
    \/ Login
    \/ ReadCookies
    \/ SignIn
    \/ GetUserInfo
    \/ Finally
    \/ PushResult
    \/ ReturnResults

SpecSignIn == InitSignIn /\ [][NextSignIn]_vars

----------------------------------------------------------------------------
(* Properties of loginAndGetSession and processAccounts *)

HasEvent(log, name) == \E k \in 1..Len(log) : log[k].ev = name

(* loginAndGetSession has run its finally block and is about to return `ret` *)
CallReturned == apc = "push"

LoginAnswered == HasEvent(netLog, "login") /\ threw # "login"
LoginHttpFailed == LoginAnswered /\ ~loginResult.success
LoginAppFailed == LoginAnswered /\ loginResult.success /\ ~loginResult.dataSuccess
LoginIdAbsent ==
    /\ LoginAnswered /\ loginResult.success /\ loginResult.dataSuccess
    /\ (~loginResult.data.present \/ loginResult.data.id = Absent)
LoginSucceeded ==
    /\ LoginAnswered /\ loginResult.success /\ loginResult.dataSuccess
    /\ loginResult.data.present /\ loginResult.data.id # Absent
CookieMissing == LoginSucceeded /\ threw # "cookies" /\ ~sessionCookie.found

(* C11: when the login HTTP call fails, the login response reports an         *)
(* application-level failure, the user id is absent from the login body, or   *)
(* no session cookie is present, loginAndGetSession returns null and has      *)
(* issued neither the checkin call nor the self-info call.                    *)
C11_LoginFailureYieldsNull ==
    (CallReturned /\ (LoginHttpFailed \/ LoginAppFailed \/ LoginIdAbsent \/ CookieMissing))
        => /\ ret.isNull
           /\ ~HasEvent(netLog, "checkin")
           /\ ~HasEvent(netLog, "self")

C11_Witness ==
    /\ CallReturned
    /\ LoginIdAbsent
    /\ ret.isNull
    /\ ~HasEvent(netLog, "checkin")

C13_CheckinOutcomeInResult ==
    \A m, n \in 1..Len(results) :
        (/\ ~results[m].data.isNull
         /\ results[m].success = results[n].success
         /\ results[m].data = results[n].data)
            => checkins[m] = checkins[n]

(* C14: on every exit path of loginAndGetSession, every browser resource that *)
(* was created has been closed when the call returns, and the close calls     *)
(* were made in the order page, context, browser.                             *)
C14_AllClosedOnReturn ==
    CallReturned =>
        /\ page # "open"
        /\ context # "open"
        /\ browser # "open"
        /\ \A m, n \in 1..Len(closeLog) :
             (closeLog[m] = "page" /\ m # n) => m < n
        /\ \A m, n \in 1..Len(closeLog) :
             (closeLog[m] = "browser" /\ m # n) => n < m

(* C15: during processAccounts at most one browser instance is open at any    *)
(* time, and every browser of an earlier account is closed before the next    *)
(* account's acquisition starts.                                              *)
C15_AtMostOneBrowser ==
    /\ leaked + (IF browser = "open" THEN 1 ELSE 0) <= 1
    /\ (apc = "launch") => leaked = 0

SelfAnswered == HasEvent(netLog, "self") /\ threw # "self"

(* C20: when the self-info call fails (HTTP failure, thrown fetch error or    *)
(* application-level failure) the returned snapshot is the user data of the   *)
(* login response; when it succeeds the snapshot is the self-info data; in    *)
(* both cases the returned session is the session cookie's value.             *)
C20_SnapshotFallback ==
    (CallReturned /\ SelfAnswered)
        => /\ ~ret.isNull
           /\ ret.session = sessionCookie.value
           /\ (userInfoResult \in {HttpFailure, FetchThrew, AppFailure}
                  => ret.userInfo = loginResult.data)
           /\ (userInfoResult = FetchOk(SelfData) => ret.userInfo = SelfData)
           /\ userInfoResult \in {HttpFailure, FetchThrew, AppFailure, FetchOk(SelfData)}

C20_Witness ==
    /\ CallReturned
    /\ SelfAnswered
    /\ userInfoResult = HttpFailure
    /\ ret.userInfo = LoginData
    /\ ret.session = "sess"

----------------------------------------------------------------------------
(* The ledger wrappers of api/account.js *)

MaxBalance == 2     \* the ledger balance ranges over 0..MaxBalance
MaxCalls == 2       \* wrapper calls made in one run

chgLocals == <<argv, pc, req, path, initCalls, attempts, error, changeResult, retryResult,
               retryUsername, pending, afterUpload, reports, uploadResult, sent,
               result, cleanups, exitCode>>

AccountIds == {NoString, "a1"}
Amounts == {Undefined, JsNull, Value("float", 1)}
           \cup {IntValue(n) : n \in (0 - MaxBalance - 1)..MaxBalance}
Limits == {Undefined, JsNull, Value("float", 1)} \cup {IntValue(n) : n \in (0 - 1)..2}
DataFields == {"_id", "create_date", "balance", "session"}
UpdateDatas ==
    {NoUpdateData}
    \cup {UpdateData(f, Absent) : f \in SUBSET (DataFields \ {"balance"})}
    \cup {UpdateData(f \cup {"balance"}, b) :
              f \in SUBSET (DataFields \ {"balance"}), b \in 0..MaxBalance}
LongReasons == {NoReason,
                Reason("none", [hasDupEntry |-> FALSE, hasKeyUsername |-> FALSE,
                                pad |-> MaxReasonLen]),
                Reason("none", [hasDupEntry |-> FALSE, hasKeyUsername |-> FALSE,
                                pad |-> MaxReasonLen + 1])}
CallerParams ==
    {Params(r, d, NoName, st, IF "error_reason" \in d THEN er ELSE NoReason, NoUserInfo) :
        r \in {NoString, "r1"}, d \in SUBSET {"status", "error_reason"},
        st \in {0, 3, 4}, er \in LongReasons}

Post(url, body) == [path |-> url, body |-> body]

(* incrementBalance: the three checks made before the request *)
AmountMissing(amount) == amount.kind \in {"undefined", "null"}

IncrementBalanceError(id, amount) ==
    IF ~TruthyString(id) THEN "_id"
    ELSE IF AmountMissing(amount) THEN "amount"
    ELSE IF ~IsInteger(amount) THEN "integer"
    ELSE ""

(* apiClient.post('/anyrouter2/incrementBalance', { _id, amount }) *)
IncrementRequest_Negated(id, amount) ==
    Post("/anyrouter2/incrementBalance", [id |-> id, amount |-> 0 - amount.n])
IncrementRequest(id, amount) ==
    Post("/anyrouter2/incrementBalance", [id |-> id, amount |-> amount.n])

(* The backend's rule for one increment request: a debit checks that the   *)
(* balance suffices; the change is one atomic database operation.          *)
IncrementOutcome_Unchecked(b, n) ==
    [success |-> TRUE, error |-> "", balance |-> b + n]
IncrementOutcome(b, n) ==
    IF n < 0 /\ b + n < 0
    THEN [success |-> FALSE, error |-> "insufficient", balance |-> b]
    ELSE [success |-> TRUE, error |-> "", balance |-> b + n]

(* getCheckinableAccounts: limit !== undefined && (!isInteger(limit) || limit < 1) *)
LimitRejected_Negative(limit) ==
    limit.kind # "undefined" /\ (~IsInteger(limit) \/ limit.n < 0)
LimitRejected(limit) ==
    limit.kind # "undefined" /\ (~IsInteger(limit) \/ limit.n < 1)

(* { ...(limit && { limit }) } *)
CheckinableRequest(limit) ==
    Post("/anyrouter2/getCheckinableAccounts",
         IF IsInteger(limit) /\ limit.n # 0
         THEN [hasLimit |-> TRUE, limit |-> limit.n]
         ELSE [hasLimit |-> FALSE, limit |-> 0])

(* updateAccountInfo: the two checks, the filtered copy and the request *)
UpdateAccountInfoError(id, updateData) ==
    IF ~TruthyString(id) THEN "_id"
    ELSE IF ~updateData.present \/ updateData.fields = {} THEN "updateData"
    ELSE ""

FilteredData(updateData) ==
    [updateData EXCEPT !.fields = @ \ {"create_date", "_id"}]

UpdateAccountRequest(id, updateData) ==
    Post("/anyrouter2/updateAccountInfo",
         [id |-> id, updateData |-> FilteredData(updateData)])

(* The backend's rule for one account update: every key of updateData is  *)
(* written to the account record, balance among them.                     *)
AccountUpdate(b, body) ==
    IF "balance" \in body.updateData.fields THEN body.updateData.balance ELSE b

Returned_(c, success, err) == [c EXCEPT !.success = success, !.error = err]

(* One call of incrementBalance({ _id, amount }) *)
DoIncrementBalance(id, amount, origin) ==
    /\ nCalls < MaxCalls
    /\ IsInteger(amount) => balance + amount.n <= MaxBalance
    /\ nCalls' = nCalls + 1
    /\ LET c == [NoCall EXCEPT !.fn = "incrementBalance", !.origin = origin,
                               !.id = id, !.amount = amount, !.before = balance]
           e == IncrementBalanceError(id, amount)
       IN  IF e # ""
           THEN /\ call' = Returned_(c, FALSE, e)
                /\ posts' = << >>
                /\ UNCHANGED balance
           ELSE \E delivered \in PostOutcomes :
                  LET request == IncrementRequest(id, amount)
                      outcome == IncrementOutcome(balance, request.body.amount)
                  IN  /\ posts' = << request >>
                      /\ IF delivered
                         THEN /\ call' = Returned_(c, outcome.success, outcome.error)
                              /\ balance' = outcome.balance
                         ELSE /\ call' = Returned_(c, FALSE, "post")
                              /\ UNCHANGED balance
    /\ UNCHANGED <<chgVars, acqVars, utilVars>>

IncrementBalance ==
    \E id \in AccountIds, amount \in Amounts : DoIncrementBalance(id, amount, "caller")

(* The checkin orchestrator folding one successful checkin into the ledger: *)
(* the delta reported by the snapshot is applied with incrementBalance.    *)
Deltas == (0 - 1)..MaxBalance

ApplyCheckinDelta ==
    \E delta \in Deltas : DoIncrementBalance("a1", IntValue(delta), "checkin")

(* One call of getCheckinableAccounts({ limit }) *)
GetCheckinableAccounts ==
    /\ nCalls < MaxCalls
    /\ nCalls' = nCalls + 1
    /\ \E limit \in Limits :
         LET c == [NoCall EXCEPT !.fn = "getCheckinableAccounts", !.origin = "caller",
                                 !.limit = limit, !.before = balance]
         IN  IF LimitRejected(limit)
             THEN /\ call' = Returned_(c, FALSE, "limit")
                  /\ posts' = << >>
             ELSE \E delivered \in PostOutcomes :
                    /\ posts' = << CheckinableRequest(limit) >>
                    /\ call' = Returned_(c, delivered, IF delivered THEN "" ELSE "post")
    /\ UNCHANGED balance
    /\ UNCHANGED <<chgVars, acqVars, utilVars>>

(* One call of updatePasswordChange(params) by any caller *)
CallUpdatePasswordChange ==
    /\ nCalls < MaxCalls
    /\ nCalls' = nCalls + 1
    /\ \E p \in CallerParams :
         LET c == [NoCall EXCEPT !.fn = "updatePasswordChange", !.origin = "caller",
                                 !.params = p, !.before = balance]
         IN  IF ValidationError(p) # ""
             THEN /\ call' = Returned_(c, FALSE, ValidationError(p))
                  /\ posts' = << >>
                  /\ UNCHANGED ledger
             ELSE \E delivered \in PostOutcomes :
                    /\ posts' = << Post("/anyrouter2/updatePasswordChange", RequestData(p)) >>
                    /\ call' = Returned_(c, delivered, IF delivered THEN "" ELSE "post")
                    /\ ledger' = IF delivered
                                 THEN LedgerUpdate(ledger, RequestData(p)) ELSE ledger
    /\ UNCHANGED balance
    /\ UNCHANGED <<chgLocals, acqVars, utilVars>>

(* One call of updateAccountInfo(_id, updateData) *)
UpdateAccountInfo ==
    /\ nCalls < MaxCalls
    /\ nCalls' = nCalls + 1
    /\ \E id \in AccountIds, updateData \in UpdateDatas :
         LET c == [NoCall EXCEPT !.fn = "updateAccountInfo", !.origin = "caller",
                                 !.id = id, !.updateData = updateData,
                                 !.before = balance]
             e == UpdateAccountInfoError(id, updateData)
         IN  IF e # ""
             THEN /\ call' = Returned_(c, FALSE, e)
                  /\ posts' = << >>
                  /\ UNCHANGED balance
             ELSE \E delivered \in PostOutcomes :
                    LET request == UpdateAccountRequest(id, updateData) IN
                      /\ posts' = << request >>
                      /\ call' = Returned_(c, delivered, IF delivered THEN "" ELSE "post")
                      /\ balance' = IF delivered
                                    THEN AccountUpdate(balance, request.body) ELSE balance
    /\ UNCHANGED <<chgVars, acqVars, utilVars>>

InitApi ==
    /\ ChgOff
    /\ AcqStart(<< >>, "off")
    /\ UtilOff
    /\ \E b \in 0..MaxBalance : ApiStart(b)

NextApi ==
    \/ IncrementBalance
    \/ ApplyCheckinDelta
    \/ GetCheckinableAccounts
    \/ CallUpdatePasswordChange
    \/ UpdateAccountInfo

SpecApi == InitApi /\ [][NextApi]_vars

----------------------------------------------------------------------------
(* Properties of the ledger wrappers *)

CarriesBalance(post) ==
    /\ post.path = "/anyrouter2/updateAccountInfo"
    /\ "balance" \in post.body.updateData.fields

(* C16: the balance is mutated only through incrementBalance: no request of   *)
(* another wrapper, updateAccountInfo with caller-supplied data in            *)
(* particular, carries an absolute balance value, and no other call changes   *)
(* the balance.                                                               *)
C16_BalanceOnlyByIncrement ==
    /\ \A k \in 1..Len(posts) :
         posts[k].path # "/anyrouter2/incrementBalance" => ~CarriesBalance(posts[k])
    /\ (call.fn # "none" /\ balance # call.before) => call.fn = "incrementBalance"

Overdraft ==
    /\ call.fn = "incrementBalance"
    /\ TruthyString(call.id)
    /\ call.amount.kind = "int"
    /\ call.before >= 0
    /\ 0 - call.amount.n > call.before

InvalidIncrement(c) ==
    \/ c.id = NoString
    \/ c.amount.kind \in {"undefined", "null"}
    \/ c.amount.kind # "int"
InvalidLimit(c) ==
    c.limit.kind # "undefined" /\ ~(c.limit.kind = "int" /\ c.limit.n > 0)
InvalidParams(c) ==
    \/ c.params.record_id = NoString
    \/ ("status" \in c.params.defined /\ c.params.status \notin {0, 1, 2, 3})
    \/ ("error_reason" \in c.params.defined /\ ReasonLen(c.params.error_reason) > 500)
FailsValidation(c) ==
    CASE c.fn = "incrementBalance"       -> InvalidIncrement(c)
      [] c.fn = "getCheckinableAccounts" -> InvalidLimit(c)
      [] c.fn = "updatePasswordChange"   -> InvalidParams(c)
      [] OTHER                           -> FALSE

(* C19: for incrementBalance, getCheckinableAccounts and updatePasswordChange, *)
(* a call whose input fails validation returns a failure result and sends no  *)
(* request; a call whose input passes validation sends exactly one request.   *)
C19_ValidationBeforeRequest ==
    (call.fn \in {"incrementBalance", "getCheckinableAccounts", "updatePasswordChange"})
        => IF FailsValidation(call)
           THEN ~call.success /\ posts = << >>
           ELSE Len(posts) = 1

C19_Witness ==
    /\ call.fn = "getCheckinableAccounts"
    /\ call.limit = IntValue(0)
    /\ ~call.success
    /\ posts = << >>

----------------------------------------------------------------------------
(* Pacing of the network actions *)

NetworkAction(e) == e.ev \in {"goto", "login", "checkin", "self"}

(* C21: within one acquisition call a random delay lies between every two     *)
(* consecutive network actions: navigation and login, login and checkin,      *)
(* checkin and self-info.                                                     *)
C21_DelayBetweenNetworkActions ==
    \A k \in 1..(Len(netLog) - 1) :
        ~(NetworkAction(netLog[k]) /\ NetworkAction(netLog[k + 1]))

----------------------------------------------------------------------------
(* getRandomDelay: utils/random-delay.js and the AnyRouterSignIn method *)

MaxDelay == 4       \* min and max range over -1..MaxDelay besides the values the code passes
RandomScale == 4    \* Math.random() yields draw / RandomScale, draw in 0..RandomScale-1
ZScale == 2         \* the Box-Muller value z is draw / ZScale
ZMax == 9           \* |z| <= sqrt(-2 ln 2^-53) < 9 for u = 1 - Math.random() in (0, 1]

RandomDraws == 0..(RandomScale - 1)
ZDraws == (0 - ZMax * ZScale)..(ZMax * ZScale)

DelayPairs ==
    {DelayArgs(lo, hi) : lo, hi \in (0 - 1)..MaxDelay}
    \cup {DelayArgs(500, 1500), DelayArgs(2000, 3000), DelayArgs(5000, 7000)}

MathFloor(a, b) == a \div b                  \* Math.floor(a / b) for b > 0
MathMax(a, b) == IF a >= b THEN a ELSE b
MathMin(a, b) == IF a <= b THEN a ELSE b

(* delay = min + ((max - min) * (z + 3)) / 6; Math.floor(delay), z = draw / ZScale *)
FlooredDelay(min, max, draw) ==
    min + MathFloor((max - min) * (draw + 3 * ZScale), 6 * ZScale)

(* utils getRandomDelay: Math.max(min, Math.min(max, Math.floor(delay))) *)
getRandomDelay_Unclamped(min, max, draw) ==
    FlooredDelay(min, max, draw)
getRandomDelay(min, max, draw) ==
    MathMax(min, MathMin(max, FlooredDelay(min, max, draw)))

(* AnyRouterSignIn.getRandomDelay: Math.floor(Math.random() * (max - min + 1)) + min *)
SignInGetRandomDelay(min, max, draw) ==
    MathFloor(draw * (max - min + 1), RandomScale) + min

CallGetRandomDelay ==
    /\ \E draw \in ZDraws :
         delayOut' = [fn |-> "utils", draw |-> draw,
                      value |-> getRandomDelay(delayArgs.min, delayArgs.max, draw)]
    /\ UNCHANGED <<delayArgs, indexFile, startIndex, gen>>
    /\ UNCHANGED <<chgVars, acqVars, apiVars>>

CallSignInGetRandomDelay ==
    /\ \E draw \in RandomDraws :
         delayOut' = [fn |-> "method", draw |-> draw,
                      value |-> SignInGetRandomDelay(delayArgs.min, delayArgs.max, draw)]
    /\ UNCHANGED <<delayArgs, indexFile, startIndex, gen>>
    /\ UNCHANGED <<chgVars, acqVars, apiVars>>

InitDelay ==
    /\ ChgOff
    /\ AcqStart(<< >>, "off")
    /\ ApiStart(0)
    /\ \E args \in DelayPairs : UtilStart(args, NoIndexFile, "off")

NextDelay ==
    \/ CallGetRandomDelay
    \/ CallSignInGetRandomDelay

SpecDelay == InitDelay /\ [][NextDelay]_vars

(* C22: for all integers min <= max and every value of the random source,     *)
(* getRandomDelay(min, max), the utils function and the AnyRouterSignIn        *)
(* method alike, returns an integer d with min <= d <= max.                    *)
C22_DelayWithinBounds ==
    (delayOut.fn # "none" /\ delayArgs.min <= delayArgs.max)
        => /\ delayOut.value \in Int
           /\ delayArgs.min <= delayOut.value
           /\ delayOut.value <= delayArgs.max

C22_Witness ==
    /\ delayOut.fn = "utils"
    /\ delayOut.draw = ZMax * ZScale
    /\ delayArgs = DelayArgs(2000, 3000)
    /\ delayOut.value = 3000

----------------------------------------------------------------------------
(* Pacing of processAccounts *)

AcquiredUpTo(k) == Cardinality({j \in 1..k : runLog[j].ev = "acquired"})

InterAccountDelay(e) ==
    /\ e.ev = "delay"
    /\ e.min = 5000
    /\ e.max = 7000
    /\ \A draw \in RandomDraws :
         /\ SignInGetRandomDelay(e.min, e.max, draw) >= 5000
         /\ SignInGetRandomDelay(e.min, e.max, draw) <= 7000

(* C23: processAccounts waits a random 5 to 7 seconds between the end of one  *)
(* account's acquisition and the start of the next, for every consecutive     *)
(* pair of accounts whether the earlier acquisition succeeded or failed, and  *)
(* makes no delay after the last account.                                     *)
C23_InterAccountDelay ==
    /\ \A k \in 2..Len(runLog) :
         runLog[k].ev = "acquire"
            => /\ InterAccountDelay(runLog[k - 1])
               /\ k > 2
               /\ runLog[k - 2].ev = "acquired"
    /\ \A k \in 1..Len(runLog) :
         runLog[k].ev = "delay"
            => /\ InterAccountDelay(runLog[k])
               /\ k > 1
               /\ runLog[k - 1].ev = "acquired"
               /\ AcquiredUpTo(k) < Len(accounts)
    /\ (apc = "done" /\ Len(accounts) > 0)
            => runLog[Len(runLog)].ev = "acquired"

C23_Witness ==
    /\ apc = "done"
    /\ Len(results) = 2
    /\ ~results[1].success
    /\ results[2].success
    /\ InterAccountDelay(runLog[3])
    /\ Len(runLog) = 5

----------------------------------------------------------------------------
(* The value returned by executeSingleChangePassword *)

SomeAttemptSucceeded == changeResult.kind = "ok" \/ retryResult.kind = "ok"

(* C24: executeSingleChangePassword returns success = true if and only if the *)
(* first attempt or the retry succeeded, whatever the outcome of the upload   *)
(* of the completed status.                                                   *)
C24_SuccessIffAttemptSucceeded ==
    Returned => (result.success <=> SomeAttemptSucceeded)

(* a run that returns success although the ledger record was never completed *)
C24_Witness ==
    /\ Returned
    /\ result.success
    /\ path = "retryok"
    /\ uploadResult.called
    /\ ~uploadResult.success
    /\ ledger.status # 2
    /\ ~ledger.complete_date

----------------------------------------------------------------------------
(* The update data forwarded by updateAccountInfo *)

(* C25: every request updateAccountInfo sends carries forwarded update data   *)
(* with at least one field, also when the caller's updateData has only the    *)
(* stripped keys _id and create_date, and the forwarded data never contains   *)
(* _id or create_date.                                                        *)
C25_ForwardedDataNotEmpty ==
    \A k \in 1..Len(posts) :
        posts[k].path = "/anyrouter2/updateAccountInfo"
            => /\ posts[k].body.updateData.fields # {}
               /\ "_id" \notin posts[k].body.updateData.fields
               /\ "create_date" \notin posts[k].body.updateData.fields

----------------------------------------------------------------------------
(* AliasGenerator (src/utils/alias-generator.js): two concurrent generateNext *)

IndexFiles ==
    {NoIndexFile}
    \cup {IndexFile(Index(sn, gn)) :
            sn \in 0..(SurnameCount - 1), gn \in 0..(GivenNameCount - 1)}

(* getIndex: the parsed file, or the initial index when it cannot be read *)
ReadIndex(file) == IF file.exists THEN file.index ELSE Index(0, 0)

(* givenNameIndex++, carrying into surnameIndex, wrapping to (0, 0) *)
Advance(index) ==
    IF index.givenNameIndex + 1 >= GivenNameCount
    THEN IF index.surnameIndex + 1 >= SurnameCount
         THEN Index(0, 0)
         ELSE Index(index.surnameIndex + 1, 0)
    ELSE Index(index.surnameIndex, index.givenNameIndex + 1)

(* const index = await this.getIndex() *)
GetIndex(c) ==
    /\ gen[c].pc = "start"
    /\ gen' = [gen EXCEPT ![c].pc = "read", ![c].index = ReadIndex(indexFile)]
    /\ UNCHANGED <<delayArgs, delayOut, indexFile, startIndex>>
    /\ UNCHANGED <<chgVars, acqVars, apiVars>>

(* build the alias from the index read, advance it, await this.saveIndex(newIndex) *)
SaveIndex(c) ==
    /\ gen[c].pc = "read"
    /\ LET newIndex == Advance(gen[c].index) IN
         \/ /\ indexFile' = IndexFile(newIndex)
            /\ gen' = [gen EXCEPT ![c].pc = "done", ![c].used = gen[c].index,
                                  ![c].newIndex = newIndex]
         \/ /\ UNCHANGED indexFile
            /\ gen' = [gen EXCEPT ![c].pc = "threw", ![c].used = gen[c].index]
    /\ UNCHANGED <<delayArgs, delayOut, startIndex>>
    /\ UNCHANGED <<chgVars, acqVars, apiVars>>

InitAlias ==
    /\ ChgOff
    /\ AcqStart(<< >>, "off")
    /\ ApiStart(0)
    /\ \E file \in IndexFiles : UtilStart(DelayArgs(0, 0), file, "start")

NextAlias ==
    \/ \E c \in Callers : GetIndex(c)
    \/ \E c \in Callers : SaveIndex(c)

SpecAlias == InitAlias /\ [][NextAlias]_vars

(* C26: any interleaving of two concurrent generateNext calls consumes two    *)
(* distinct index pairs: the two returned aliases are not built from the same *)
(* (surnameIndex, givenNameIndex), and the persisted index has advanced by    *)
(* two positions, wrapping to (0, 0) after the last pair.                     *)
C26_DistinctPairs ==
    (\A c \in Callers : gen[c].pc = "done")
        => /\ gen["g1"].used # gen["g2"].used
           /\ indexFile = IndexFile(Advance(Advance(ReadIndex(startIndex))))

====
